---- MODULE Spec2Model ----
(***************************************************************************)
(* Scheduled-delivery engine of slack-connect-app: the ScheduledMessage    *)
(* table, the SlackInstallation table, the cron-driven sendDueMessages     *)
(* cycle and the request handlers that create, cancel and delete messages. *)
(*                                                                         *)
(* Every await of the TypeScript code is a point where other handlers and  *)
(* other scheduler cycles can run, so each database or Slack call is one   *)
(* action; the synchronous code between two awaits belongs to the action   *)
(* of the await that precedes it.                                          *)
(***************************************************************************)
EXTENDS Integers, Sequences, FiniteSets

\* ---------------------------------------------------------------- bounds
MaxMsgs == 2
MaxTime == 1
NumCycles == 2
NumCalls == 2
MaxTokens == 3
MaxTtl == 2
MaxSessions == 2
MaxStates == 2
NumVerifiers == 2
NumRequests == 2
\* the refresh window of ten minutes, in units of ten minutes
Margin == 1
\* a session lasts thirty days: longer than the span of the engine's clock
SessionTtl == MaxTime + 1
\* a bearer token that createUserSession never issued
Forged == MaxSessions + 1

Tenants == {"T1", "T2"}
MsgIds == 1..MaxMsgs
Cycles == 1..NumCycles
Calls == 1..NumCalls
Verifiers == 1..NumVerifiers
Requests == 1..NumRequests

VARIABLES
    msgs,      \* ScheduledMessage table: id -> row (status "NONE": no such row)
    nextId,    \* next fresh message id (ids are never reused)
    inst,      \* SlackInstallation table: tenant -> record
    now,       \* wall clock
    cyc,       \* the running sendDueMessages invocations
    posts,     \* id -> number of chat.postMessage calls that posted the message
    slackAt,   \* id -> post_at registered with chat.scheduleMessage (0: none)
    cred,      \* SlackInstallation.data in full: tenant -> tokens and expiry
    call,      \* the running token-service invocations
    issued,    \* number of token pairs Slack has issued
    sess,      \* UserSession table: tenant -> session token (0: no row)
    sessions,  \* number of session tokens generated
    lo,        \* tenant -> the logout request in progress
    sch,       \* tenant -> the schedule-message request in progress
    oauthStates, \* OAuthState table: the state values stored
    generated, \* number of state values generateStateParam has produced
    verify,    \* the running verifyStateParam invocations
    sessExp,   \* UserSession.expiresAt: tenant -> instant (0: no row)
    auth       \* the running authenticate invocations

vars == <<msgs, nextId, inst, now, cyc, posts, slackAt>>

\* the state of the token service (services/tokenService.ts), which the
\* delivery engine above never touches
svcVars == <<cred, call, issued>>

\* the session table and the requests that are served await by await
reqVars == <<sess, sessions, lo, sch>>

\* the OAuth state table, the expiry of the sessions, and the invocations of
\* verifyStateParam and of the authenticate middleware
authVars == <<oauthStates, generated, verify, sessExp, auth>>

\* ---------------------------------------------------------------- values
NoRow == [status |-> "NONE", inst |-> "none", sendAt |-> 0, asUser |-> FALSE]
NoInst == [present |-> FALSE, bot |-> FALSE, user |-> FALSE]
NoToken == [owner |-> "none", kind |-> "none"]
\* a sendDueMessages slot with no invocation running: the last one returned
\* (idle) or ended with a rejected promise (rejected)
IdleCycle == [pc |-> "idle", batch |-> <<>>, gwOk |-> FALSE]
Rejected == [pc |-> "rejected", batch |-> <<>>, gwOk |-> FALSE]

Stored(m) == msgs[m].status # "NONE"

\* SelectToken as it would be if the bot token were taken for every message
SelectToken_IgnoresFlag(t, data, asUser) ==
    IF data.bot THEN [owner |-> t, kind |-> "bot"] ELSE NoToken

\* installation.data: the token the scheduler and the controller pick for a
\* message, by its sendAsUser flag
SelectToken(t, data, asUser) ==
    IF asUser
    THEN IF data.user THEN [owner |-> t, kind |-> "user"] ELSE NoToken
    ELSE IF data.bot THEN [owner |-> t, kind |-> "bot"] ELSE NoToken

\* ---------------------------------------------------------------- repository
\* DueFrom as it would be if findMany asked for every PENDING row
RECURSIVE DueFrom_IgnoresSendAt(_)
DueFrom_IgnoresSendAt(m) ==
    IF m > MaxMsgs THEN <<>>
    ELSE IF msgs[m].status = "PENDING"
         THEN <<[id |-> m,
                 tok |-> SelectToken(msgs[m].inst, inst[msgs[m].inst], msgs[m].asUser)]>>
              \o DueFrom_IgnoresSendAt(m + 1)
         ELSE DueFrom_IgnoresSendAt(m + 1)

\* prisma.scheduledMessage.findMany({where: {sendAt <= now, status: PENDING},
\* include: {installation: true}}): the due rows, each with the installation
\* data as read, in id order
RECURSIVE DueFrom(_)
DueFrom(m) ==
    IF m > MaxMsgs THEN <<>>
    ELSE IF msgs[m].status = "PENDING" /\ msgs[m].sendAt <= now
         THEN <<[id |-> m,
                 tok |-> SelectToken(msgs[m].inst, inst[msgs[m].inst], msgs[m].asUser)]>>
              \o DueFrom(m + 1)
         ELSE DueFrom(m + 1)

BatchIds(b) == {b[i].id : i \in 1..Len(b)}

\* PendingIds as it would be if the query had no status filter
PendingIds_AnyStatus(t) == {m \in MsgIds : msgs[m].inst = t}

\* findPendingMessagesByInstallationId, the where clause: the rows of the
\* installation with status PENDING
PendingIds(t) == {m \in MsgIds : msgs[m].inst = t /\ msgs[m].status = "PENDING"}

\* orderBy: {sendAt: 'asc'}: the least sendAt first (rows with equal sendAt
\* in id order)
RECURSIVE SortBySendAt(_)
SortBySendAt(S) ==
    IF S = {} THEN <<>>
    ELSE LET m == CHOOSE x \in S :
                     \A y \in S : \/ msgs[x].sendAt < msgs[y].sendAt
                                  \/ msgs[x].sendAt = msgs[y].sendAt /\ x <= y
         IN <<m>> \o SortBySendAt(S \ {m})

\* findPendingMessagesByInstallationId(installationId): the ids of the rows
\* returned, in the order returned
FindPendingMessagesByInstallationId(t) == SortBySendAt(PendingIds(t))

\* MarkProcessing as it would be without the PROCESSING status (the earlier
\* sendDueMessages, which read the due rows and marked nothing)
MarkProcessing_Nothing(ids) == msgs

\* MarkProcessing as it would be if updateMany repeated findMany's where
\* clause instead of naming the ids read
MarkProcessing_AllDue(ids) ==
    [m \in MsgIds |->
        IF msgs[m].status = "PENDING" /\ msgs[m].sendAt <= now
        THEN [msgs[m] EXCEPT !.status = "PROCESSING"]
        ELSE msgs[m]]

\* prisma.scheduledMessage.updateMany({where: {id in ids}, data: {status: PROCESSING}})
MarkProcessing(ids) ==
    [m \in MsgIds |->
        IF m \in ids /\ Stored(m) THEN [msgs[m] EXCEPT !.status = "PROCESSING"]
        ELSE msgs[m]]

\* ---------------------------------------------------------------- scheduler
\* the for loop reaches the next message: the token is picked synchronously,
\* then either postMessage is in flight or (no token) the catch block's
\* FAILED write is
LoopAt(rest) ==
    IF rest = <<>> THEN IdleCycle
    ELSE IF Head(rest).tok = NoToken
         THEN [pc |-> "catch", batch |-> rest, gwOk |-> FALSE]
         ELSE [pc |-> "post", batch |-> rest, gwOk |-> FALSE]

\* Tick as it would be if a rejected sendDueMessages ended the cron task
Tick_StopsAfterRejection(c) ==
    /\ cyc[c].pc = "idle"
    /\ cyc' = [cyc EXCEPT ![c].pc = "read"]
    /\ UNCHANGED <<msgs, nextId, inst, now, posts, slackAt>>
    /\ UNCHANGED svcVars
    /\ UNCHANGED reqVars
    /\ UNCHANGED authVars

\* cron fires (every minute, whatever became of the invocations before):
\* sendDueMessages starts and awaits findAndMarkDueMessages
Tick(c) ==
    /\ cyc[c].pc \in {"idle", "rejected"}
    /\ cyc' = [cyc EXCEPT ![c].pc = "read"]
    /\ UNCHANGED <<msgs, nextId, inst, now, posts, slackAt>>
    /\ UNCHANGED svcVars
    /\ UNCHANGED reqVars
    /\ UNCHANGED authVars

\* findMany returns; with no due message the cycle is over
ClaimRead(c) ==
    /\ cyc[c].pc = "read"
    /\ LET due == DueFrom(1) IN
       cyc' = [cyc EXCEPT ![c] =
                 IF due = <<>> THEN IdleCycle
                 ELSE [cyc[c] EXCEPT !.pc = "mark", !.batch = due]]
    /\ UNCHANGED <<msgs, nextId, inst, now, posts, slackAt>>
    /\ UNCHANGED svcVars
    /\ UNCHANGED reqVars
    /\ UNCHANGED authVars

\* findMany rejects: sendDueMessages rejects, the cycle is over
ClaimReadError(c) ==
    /\ cyc[c].pc = "read"
    /\ cyc' = [cyc EXCEPT ![c] = Rejected]
    /\ UNCHANGED <<msgs, nextId, inst, now, posts, slackAt>>
    /\ UNCHANGED svcVars
    /\ UNCHANGED reqVars
    /\ UNCHANGED authVars

\* updateMany returns; findAndMarkDueMessages returns the rows read before
ClaimMark(c) ==
    /\ cyc[c].pc = "mark"
    /\ msgs' = MarkProcessing(BatchIds(cyc[c].batch))
    /\ cyc' = [cyc EXCEPT ![c] = LoopAt(cyc[c].batch)]
    /\ UNCHANGED <<nextId, inst, now, posts, slackAt>>
    /\ UNCHANGED svcVars
    /\ UNCHANGED reqVars
    /\ UNCHANGED authVars

\* updateMany rejects: sendDueMessages rejects, the cycle is over
ClaimMarkError(c) ==
    /\ cyc[c].pc = "mark"
    /\ cyc' = [cyc EXCEPT ![c] = Rejected]
    /\ UNCHANGED <<msgs, nextId, inst, now, posts, slackAt>>
    /\ UNCHANGED svcVars
    /\ UNCHANGED reqVars
    /\ UNCHANGED authVars

\* PostOk as it would be if the SENT write were not awaited: the loop goes on
\* to the next message while the write is in flight
PostOk_WriteNotAwaited(c) ==
    /\ cyc[c].pc = "post"
    /\ LET m == Head(cyc[c].batch).id IN
       posts' = [posts EXCEPT ![m] = @ + 1]
    /\ cyc' = [cyc EXCEPT ![c] = LoopAt(Tail(cyc[c].batch))]
    /\ UNCHANGED <<msgs, nextId, inst, now, slackAt>>
    /\ UNCHANGED svcVars
    /\ UNCHANGED reqVars
    /\ UNCHANGED authVars

\* chat.postMessage returns ok: the message is in the channel; the SENT write
\* is issued
PostOk(c) ==
    /\ cyc[c].pc = "post"
    /\ LET m == Head(cyc[c].batch).id IN
       posts' = [posts EXCEPT ![m] = @ + 1]
    /\ cyc' = [cyc EXCEPT ![c].pc = "markSent", ![c].gwOk = TRUE]
    /\ UNCHANGED <<msgs, nextId, inst, now, slackAt>>
    /\ UNCHANGED svcVars
    /\ UNCHANGED reqVars
    /\ UNCHANGED authVars

\* chat.postMessage returns not ok or throws: the catch block issues the
\* FAILED write
PostError(c) ==
    /\ cyc[c].pc = "post"
    /\ cyc' = [cyc EXCEPT ![c].pc = "catch", ![c].gwOk = FALSE]
    /\ UNCHANGED <<msgs, nextId, inst, now, posts, slackAt>>
    /\ UNCHANGED svcVars
    /\ UNCHANGED reqVars
    /\ UNCHANGED authVars

\* WriteSent as it would be if a message were deleted once it is sent
WriteSent_DeletesRow(c) ==
    /\ cyc[c].pc = "markSent"
    /\ LET m == Head(cyc[c].batch).id IN
       IF Stored(m)
       THEN /\ msgs' = [msgs EXCEPT ![m] = NoRow]
            /\ cyc' = [cyc EXCEPT ![c] = LoopAt(Tail(cyc[c].batch))]
       ELSE /\ msgs' = msgs
            /\ cyc' = [cyc EXCEPT ![c].pc = "catch"]
    /\ UNCHANGED <<nextId, inst, now, posts, slackAt>>
    /\ UNCHANGED svcVars
    /\ UNCHANGED reqVars
    /\ UNCHANGED authVars

\* updateMessageStatus(id, 'SENT'): prisma update throws when the row is gone
WriteSent(c) ==
    /\ cyc[c].pc = "markSent"
    /\ LET m == Head(cyc[c].batch).id IN
       IF Stored(m)
       THEN /\ msgs' = [msgs EXCEPT ![m].status = "SENT"]
            /\ cyc' = [cyc EXCEPT ![c] = LoopAt(Tail(cyc[c].batch))]
       ELSE /\ msgs' = msgs
            /\ cyc' = [cyc EXCEPT ![c].pc = "catch"]
    /\ UNCHANGED <<nextId, inst, now, posts, slackAt>>
    /\ UNCHANGED svcVars
    /\ UNCHANGED reqVars
    /\ UNCHANGED authVars

\* updateMessageStatus(id, 'SENT') rejects for a database error
WriteSentError(c) ==
    /\ cyc[c].pc = "markSent"
    /\ cyc' = [cyc EXCEPT ![c].pc = "catch"]
    /\ UNCHANGED <<msgs, nextId, inst, now, posts, slackAt>>
    /\ UNCHANGED svcVars
    /\ UNCHANGED reqVars
    /\ UNCHANGED authVars

\* catch block: updateMessageStatus(id, 'FAILED'); when it throws nothing
\* catches it, the loop and sendDueMessages end
WriteFailed(c) ==
    /\ cyc[c].pc = "catch"
    /\ LET m == Head(cyc[c].batch).id IN
       IF Stored(m)
       THEN /\ msgs' = [msgs EXCEPT ![m].status = "FAILED"]
            /\ cyc' = [cyc EXCEPT ![c] = LoopAt(Tail(cyc[c].batch))]
       ELSE /\ msgs' = msgs
            /\ cyc' = [cyc EXCEPT ![c] = Rejected]
    /\ UNCHANGED <<nextId, inst, now, posts, slackAt>>
    /\ UNCHANGED svcVars
    /\ UNCHANGED reqVars
    /\ UNCHANGED authVars

\* updateMessageStatus(id, 'FAILED') rejects for a database error
WriteFailedError(c) ==
    /\ cyc[c].pc = "catch"
    /\ cyc' = [cyc EXCEPT ![c] = Rejected]
    /\ UNCHANGED <<msgs, nextId, inst, now, posts, slackAt>>
    /\ UNCHANGED svcVars
    /\ UNCHANGED reqVars
    /\ UNCHANGED authVars

\* ---------------------------------------------------------------- handlers
\* OAuth callback: storeInstallation upserts the tenant's record
StoreInstallation(t, bot, user) ==
    /\ bot \/ user
    /\ inst' = [inst EXCEPT ![t] = [present |-> TRUE, bot |-> bot, user |-> user]]
    /\ UNCHANGED <<msgs, nextId, now, cyc, posts, slackAt>>
    /\ UNCHANGED svcVars
    /\ UNCHANGED reqVars
    /\ UNCHANGED authVars

\* POST /api/schedule-message of an authenticated tenant; slackOk is the
\* outcome of chat.scheduleMessage
ScheduleMessage(t, at, asUser, slackOk) ==
    /\ nextId <= MaxMsgs
    /\ IF /\ inst[t].present
          /\ SelectToken(t, inst[t], asUser) # NoToken
          /\ slackOk
       THEN /\ msgs' = [msgs EXCEPT ![nextId] =
                          [status |-> "PENDING", inst |-> t, sendAt |-> at, asUser |-> asUser]]
            /\ slackAt' = [slackAt EXCEPT ![nextId] = at]
            /\ nextId' = nextId + 1
       ELSE UNCHANGED <<msgs, slackAt, nextId>>
    /\ UNCHANGED <<inst, now, cyc, posts>>
    /\ UNCHANGED svcVars
    /\ UNCHANGED reqVars
    /\ UNCHANGED authVars

\* the answer of DELETE /api/scheduled-messages/:id to tenant t: 404 without
\* installation or without the message, 403 for the message of another
\* installation, else 200
CancelResponse(t, m) ==
    IF ~inst[t].present THEN 404
    ELSE IF ~Stored(m) THEN 404
    ELSE IF msgs[m].inst # t THEN 403
    ELSE 200

\* CancelScheduledMessage as it was before the ownership check: the row with
\* the id is deleted, whoever asks
CancelScheduledMessage_NoOwnerCheck(t, m) ==
    /\ IF Stored(m)
       THEN msgs' = [msgs EXCEPT ![m] = NoRow]
       ELSE msgs' = msgs
    /\ UNCHANGED <<nextId, inst, now, cyc, posts, slackAt>>
    /\ UNCHANGED svcVars
    /\ UNCHANGED reqVars
    /\ UNCHANGED authVars

\* DELETE /api/scheduled-messages/:id of an authenticated tenant
CancelScheduledMessage(t, m) ==
    /\ IF /\ inst[t].present
          /\ Stored(m)
          /\ msgs[m].inst = t
       THEN msgs' = [msgs EXCEPT ![m] = NoRow]
       ELSE msgs' = msgs
    /\ UNCHANGED <<nextId, inst, now, cyc, posts, slackAt>>
    /\ UNCHANGED svcVars
    /\ UNCHANGED reqVars
    /\ UNCHANGED authVars

\* POST /api/logout of an authenticated tenant
Logout(t) ==
    /\ inst[t].present
    /\ msgs' = [m \in MsgIds |-> IF msgs[m].inst = t THEN NoRow ELSE msgs[m]]
    /\ inst' = [inst EXCEPT ![t] = NoInst]
    /\ UNCHANGED <<nextId, now, cyc, posts, slackAt>>
    /\ UNCHANGED svcVars
    /\ UNCHANGED reqVars
    /\ UNCHANGED authVars

\* time passes
AdvanceTime ==
    /\ now < MaxTime
    /\ now' = now + 1
    /\ UNCHANGED <<msgs, nextId, inst, cyc, posts, slackAt>>
    /\ UNCHANGED svcVars
    /\ UNCHANGED reqVars
    /\ UNCHANGED authVars

\* ---------------------------------------------------------------- token service
\* (time is counted in units of ten minutes; Margin is the refresh window)
\* one sub-credential of installation.data (data.bot or data.user);
\* 0 stands for a field that is absent
NoSub == [token |-> 0, refreshToken |-> 0, expiresAt |-> 0]
\* no row of SlackInstallation for a tenant (row ids start at 1)
NoCred == [id |-> 0, bot |-> NoSub, user |-> NoSub]
\* a call slot with no invocation running
NoCall == [fn |-> "none", pc |-> "idle"]
\* an invocation as it starts: nothing read, nothing granted, no result
NewCall ==
    [fn |-> "none", pc |-> "idle", key |-> "none", src |-> "none", snap |-> NoCred,
     withUser |-> FALSE, asUser |-> FALSE, cur |-> 0, new |-> NoSub, result |-> 0,
     grants |-> 0]

\* T1 and T2 are two users of one workspace: their rows carry the same teamId
TeamOf == [t \in Tenants |-> "W1"]

\* NotExpiring with the window one unit wider than the code's
NotExpiring_WiderWindow(sub) == sub.expiresAt > now + Margin + 1

\* expiresAt * 1000 > Date.now() + 10 * 60 * 1000
NotExpiring(sub) == sub.expiresAt > now + Margin

\* Resolve as it would be if a missing refresh token or expiresAt did not
\* end the call
Resolve_RefreshesAnyway(c, src, row) ==
    LET b == row.bot IN
    IF b.token = 0 \/ NotExpiring(b)
    THEN [c EXCEPT !.pc = "done", !.src = src, !.snap = row, !.result = b.token]
    ELSE [c EXCEPT !.pc = "grant", !.src = src, !.snap = row, !.cur = b.token,
                   !.grants = @ + 1]

\* getValidAccessToken after a row was found: the synchronous code up to the
\* return or to the await of the refresh grant
Resolve(c, src, row) ==
    LET b == row.bot IN
    IF b.token = 0 \/ b.refreshToken = 0 \/ b.expiresAt = 0 \/ NotExpiring(b)
    THEN [c EXCEPT !.pc = "done", !.src = src, !.snap = row, !.result = b.token]
    ELSE [c EXCEPT !.pc = "grant", !.src = src, !.snap = row, !.cur = b.token,
                   !.grants = @ + 1]

\* StoreInstallationData as it would be with a delete and a create in place
\* of the upsert: the row gets a new id
StoreInstallationData_NewId(t, bot, user, rotating, ttl) ==
    /\ issued < MaxTokens
    /\ bot \/ user
    /\ LET n == issued + 1
           sub == [token |-> n,
                   refreshToken |-> IF rotating THEN n ELSE 0,
                   expiresAt |-> IF rotating THEN now + ttl ELSE 0] IN
       /\ cred' = [cred EXCEPT ![t] =
                     [id |-> n,
                      bot |-> IF bot THEN sub ELSE NoSub,
                      user |-> IF user THEN sub ELSE NoSub]]
       /\ issued' = n
    /\ UNCHANGED <<msgs, nextId, inst, now, cyc, posts, slackAt, call>>
    /\ UNCHANGED reqVars
    /\ UNCHANGED authVars

\* the OAuth callback's storeInstallation with the installation Slack
\* returned: an upsert by (teamId, userId) that replaces data as a whole
StoreInstallationData(t, bot, user, rotating, ttl) ==
    /\ issued < MaxTokens
    /\ bot \/ user
    /\ LET n == issued + 1
           sub == [token |-> n,
                   refreshToken |-> IF rotating THEN n ELSE 0,
                   expiresAt |-> IF rotating THEN now + ttl ELSE 0] IN
       /\ cred' = [cred EXCEPT ![t] =
                     [id |-> IF cred[t].id = 0 THEN n ELSE cred[t].id,
                      bot |-> IF bot THEN sub ELSE NoSub,
                      user |-> IF user THEN sub ELSE NoSub]]
       /\ issued' = n
    /\ UNCHANGED <<msgs, nextId, inst, now, cyc, posts, slackAt, call>>
    /\ UNCHANGED reqVars
    /\ UNCHANGED authVars

\* deleteInstallationByTeamIdAndUserId (logout)
DeleteInstallation(t) ==
    /\ cred[t].id # 0
    /\ cred' = [cred EXCEPT ![t] = NoCred]
    /\ UNCHANGED <<msgs, nextId, inst, now, cyc, posts, slackAt, call, issued>>
    /\ UNCHANGED reqVars
    /\ UNCHANGED authVars

\* getValidAccessToken(teamId, userId?) is called: with a userId it awaits
\* findUnique by (teamId, userId), without one findFirst by teamId
GetValidAccessToken(k, t, withUser) ==
    /\ call[k].pc = "idle"
    /\ call' = [call EXCEPT ![k] =
                  [NewCall EXCEPT !.fn = "getValidAccessToken", !.key = t,
                                 !.withUser = withUser,
                                 !.pc = IF withUser THEN "findUnique" ELSE "findFirst"]]
    /\ UNCHANGED <<msgs, nextId, inst, now, cyc, posts, slackAt, cred, issued>>
    /\ UNCHANGED reqVars
    /\ UNCHANGED authVars

\* findUnique returns: the row of the tenant, or none, and then findFirst
\* by teamId is awaited
FindUnique(k) ==
    /\ call[k].pc = "findUnique"
    /\ LET t == call[k].key IN
       call' = [call EXCEPT ![k] =
                  IF cred[t].id # 0 THEN Resolve(call[k], t, cred[t])
                  ELSE [call[k] EXCEPT !.pc = "findFirst"]]
    /\ UNCHANGED <<msgs, nextId, inst, now, cyc, posts, slackAt, cred, issued>>
    /\ UNCHANGED reqVars
    /\ UNCHANGED authVars

\* findFirst({where: {teamId}}) returns some row of the team, or none
FindFirst(k) ==
    /\ call[k].pc = "findFirst"
    /\ LET rows == {u \in Tenants : cred[u].id # 0 /\ TeamOf[u] = TeamOf[call[k].key]} IN
       IF rows = {}
       THEN call' = [call EXCEPT ![k].pc = "done"]
       ELSE \E u \in rows : call' = [call EXCEPT ![k] = Resolve(call[k], u, cred[u])]
    /\ UNCHANGED <<msgs, nextId, inst, now, cyc, posts, slackAt, cred, issued>>
    /\ UNCHANGED reqVars
    /\ UNCHANGED authVars

\* refreshBotToken: oauth.v2.access returns a new access token with its
\* expires_in, and a new refresh token or none (refresh_token undefined, which
\* the stored JSON leaves out); newInstallationData is built from the row as
\* it was read, and the update by id is awaited
GrantOk(k, ttl, rotated) ==
    /\ call[k].pc = "grant"
    /\ issued < MaxTokens
    /\ issued' = issued + 1
    /\ call' = [call EXCEPT ![k].pc = "update",
                            ![k].new = [token |-> issued + 1,
                                        refreshToken |-> IF rotated THEN issued + 1 ELSE 0,
                                        expiresAt |-> now + ttl]]
    /\ UNCHANGED <<msgs, nextId, inst, now, cyc, posts, slackAt, cred>>
    /\ UNCHANGED reqVars
    /\ UNCHANGED authVars

\* GrantError as it would be if the catch block returned null
GrantError_ReturnsNull(k) ==
    /\ call[k].pc = "grant"
    /\ call' = [call EXCEPT ![k].pc = "done", ![k].result = 0]
    /\ UNCHANGED <<msgs, nextId, inst, now, cyc, posts, slackAt, cred, issued>>
    /\ UNCHANGED reqVars
    /\ UNCHANGED authVars

\* refreshBotToken: oauth.v2.access throws; the catch block returns the
\* current token
GrantError(k) ==
    /\ call[k].pc = "grant"
    /\ call' = [call EXCEPT ![k].pc = "done", ![k].result = call[k].cur]
    /\ UNCHANGED <<msgs, nextId, inst, now, cyc, posts, slackAt, cred, issued>>
    /\ UNCHANGED reqVars
    /\ UNCHANGED authVars

\* refreshBotToken: prisma update({where: {id}, data: {data: newInstallationData}})
\* returns; it throws when no row has the id, and the catch block returns
\* the current token
UpdateData(k) ==
    /\ call[k].pc = "update"
    /\ LET u == call[k].src IN
       IF cred[u].id = call[k].snap.id
       THEN /\ cred' = [cred EXCEPT ![u] = [call[k].snap EXCEPT !.bot = call[k].new]]
            /\ call' = [call EXCEPT ![k].pc = "done", ![k].result = call[k].new.token]
       ELSE /\ cred' = cred
            /\ call' = [call EXCEPT ![k].pc = "done", ![k].result = call[k].cur]
    /\ UNCHANGED <<msgs, nextId, inst, now, cyc, posts, slackAt, issued>>
    /\ UNCHANGED reqVars
    /\ UNCHANGED authVars

\* UpdateDataError as it would be if the update were in a try block of its
\* own and the token of the grant were returned all the same
UpdateDataError_ReturnsNew(k) ==
    /\ call[k].pc = "update"
    /\ call' = [call EXCEPT ![k].pc = "done", ![k].result = call[k].new.token]
    /\ UNCHANGED <<msgs, nextId, inst, now, cyc, posts, slackAt, cred, issued>>
    /\ UNCHANGED reqVars
    /\ UNCHANGED authVars

\* refreshBotToken: the update rejects for a database error; the catch block
\* returns the current token
UpdateDataError(k) ==
    /\ call[k].pc = "update"
    /\ call' = [call EXCEPT ![k].pc = "done", ![k].result = call[k].cur]
    /\ UNCHANGED <<msgs, nextId, inst, now, cyc, posts, slackAt, cred, issued>>
    /\ UNCHANGED reqVars
    /\ UNCHANGED authVars

\* getUserToken(teamId, userId) is called and awaits findUnique
GetUserToken(k, t) ==
    /\ call[k].pc = "idle"
    /\ call' = [call EXCEPT ![k] =
                  [NewCall EXCEPT !.fn = "getUserToken", !.key = t, !.withUser = TRUE,
                                 !.pc = "findUser"]]
    /\ UNCHANGED <<msgs, nextId, inst, now, cyc, posts, slackAt, cred, issued>>
    /\ UNCHANGED reqVars
    /\ UNCHANGED authVars

\* getUserToken: findUnique returns; the result is data.user?.token or null
FindUser(k) ==
    /\ call[k].pc = "findUser"
    /\ LET t == call[k].key IN
       call' = [call EXCEPT ![k] =
                  IF cred[t].id # 0
                  THEN [call[k] EXCEPT !.pc = "done", !.src = t, !.snap = cred[t],
                                       !.result = cred[t].user.token]
                  ELSE [call[k] EXCEPT !.pc = "done"]]
    /\ UNCHANGED <<msgs, nextId, inst, now, cyc, posts, slackAt, cred, issued>>
    /\ UNCHANGED reqVars
    /\ UNCHANGED authVars

\* the caller has the result; the slot is free for the next invocation
Return(k) ==
    /\ call[k].pc = "done"
    /\ call' = [call EXCEPT ![k] = NoCall]
    /\ UNCHANGED <<msgs, nextId, inst, now, cyc, posts, slackAt, cred, issued>>
    /\ UNCHANGED reqVars
    /\ UNCHANGED authVars

\* the sub-credential a message is sent with, by its sendAsUser flag
Selected(row, asUser) == IF asUser THEN row.user ELSE row.bot

\* sendDueMessages, seen from the token service: findMany returns a due
\* message of tenant t with its installation row included
SendDueRead(k, t, asUser) ==
    /\ call[k].pc = "idle"
    /\ cred[t].id # 0
    /\ call' = [call EXCEPT ![k] =
                  [NewCall EXCEPT !.fn = "sendDueMessages", !.key = t, !.src = t,
                                 !.snap = cred[t], !.asUser = asUser, !.pc = "claimed"]]
    /\ UNCHANGED <<msgs, nextId, inst, now, cyc, posts, slackAt, cred, issued>>
    /\ UNCHANGED reqVars
    /\ UNCHANGED authVars

\* sendDueMessages: the loop reaches the message, takes the token from the
\* included row and awaits chat.postMessage; without a token it throws
SendDuePost(k) ==
    /\ call[k].pc = "claimed"
    /\ LET tok == Selected(call[k].snap, call[k].asUser).token IN
       call' = [call EXCEPT ![k].pc = IF tok = 0 THEN "done" ELSE "post",
                            ![k].result = tok]
    /\ UNCHANGED <<msgs, nextId, inst, now, cyc, posts, slackAt, cred, issued>>
    /\ UNCHANGED reqVars
    /\ UNCHANGED authVars

\* sendDueMessages: chat.postMessage returns
SendDuePosted(k) ==
    /\ call[k].pc = "post"
    /\ call' = [call EXCEPT ![k].pc = "done"]
    /\ UNCHANGED <<msgs, nextId, inst, now, cyc, posts, slackAt, cred, issued>>
    /\ UNCHANGED reqVars
    /\ UNCHANGED authVars

\* ---------------------------------------------------------------- requests, await by await
\* no logout request and no schedule request of a tenant in progress
NoLogout == [pc |-> "idle", tok |-> 0]
NoSchedule == [pc |-> "idle", sendAt |-> 0, asUser |-> FALSE]

Quiet(t) == lo[t] = NoLogout /\ sch[t] = NoSchedule

\* the rows of ScheduledMessage that reference the installation of tenant t
MessagesOf(t) == {m \in MsgIds : msgs[m].inst = t}

\* the OAuth callback stores the installation of a tenant none of whose
\* requests is in progress
Authorize(t) ==
    /\ Quiet(t)
    /\ \E bot \in BOOLEAN, user \in BOOLEAN : StoreInstallation(t, bot, user)

\* CreateUserSession as it would be with a create that leaves an existing
\* row of the (userId, teamId) as it is
CreateUserSession_KeepsOld(t) ==
    /\ inst[t].present
    /\ sessions < MaxSessions
    /\ sessions' = sessions + 1
    /\ IF sess[t] = 0
       THEN /\ sess' = [sess EXCEPT ![t] = sessions + 1]
            /\ sessExp' = [sessExp EXCEPT ![t] = now + SessionTtl]
       ELSE UNCHANGED <<sess, sessExp>>
    /\ UNCHANGED <<vars, svcVars, lo, sch>>
    /\ UNCHANGED <<oauthStates, generated, verify, auth>>

\* createUserSession, by the OAuth callback after storeInstallation or by
\* POST /api/login after it found the installation: an upsert by
\* (userId, teamId) that puts a new random token in the tenant's row
CreateUserSession(t) ==
    /\ inst[t].present
    /\ sessions < MaxSessions
    /\ sessions' = sessions + 1
    /\ sess' = [sess EXCEPT ![t] = sessions + 1]
    /\ sessExp' = [sessExp EXCEPT ![t] = now + SessionTtl]
    /\ UNCHANGED <<vars, svcVars, lo, sch>>
    /\ UNCHANGED <<oauthStates, generated, verify, auth>>

\* POST /api/logout arrives with the tenant's session token; authenticate
\* finds the session and the handler awaits findInstallationByTeamIdAndUserId
LogoutStart(t) ==
    /\ lo[t].pc = "idle"
    /\ sess[t] # 0
    /\ now <= sessExp[t]
    /\ lo' = [lo EXCEPT ![t] = [pc |-> "find", tok |-> sess[t]]]
    /\ UNCHANGED <<vars, svcVars, sess, sessions, sch>>
    /\ UNCHANGED authVars

\* logout: the installation is found (or 404) and deleteMessagesByInstallationId
\* is awaited
LogoutFind(t) ==
    /\ lo[t].pc = "find"
    /\ lo' = [lo EXCEPT ![t] = IF inst[t].present THEN [@ EXCEPT !.pc = "deleteMessages"]
                                ELSE NoLogout]
    /\ UNCHANGED <<vars, svcVars, sess, sessions, sch>>
    /\ UNCHANGED authVars

\* logout: deleteMany of the tenant's messages returns;
\* deleteInstallationByTeamIdAndUserId is awaited
LogoutDeleteMessages(t) ==
    /\ lo[t].pc = "deleteMessages"
    /\ msgs' = [m \in MsgIds |-> IF m \in MessagesOf(t) THEN NoRow ELSE msgs[m]]
    /\ lo' = [lo EXCEPT ![t].pc = "deleteInstallation"]
    /\ UNCHANGED <<nextId, inst, now, cyc, posts, slackAt, svcVars, sess, sessions, sch>>
    /\ UNCHANGED authVars

\* LogoutDeleteInstallation as it would be without the foreign key of
\* ScheduledMessage.installationId
LogoutDeleteInstallation_NoForeignKey(t) ==
    /\ lo[t].pc = "deleteInstallation"
    /\ IF inst[t].present
       THEN /\ inst' = [inst EXCEPT ![t] = NoInst]
            /\ lo' = [lo EXCEPT ![t].pc = "deleteSession"]
       ELSE /\ inst' = inst
            /\ lo' = [lo EXCEPT ![t] = NoLogout]
    /\ UNCHANGED <<msgs, nextId, now, cyc, posts, slackAt, svcVars, sess, sessions, sch>>
    /\ UNCHANGED authVars

\* logout: the delete of the installation returns, and deleteSession is
\* awaited; it throws (500) when the row is gone or when a message
\* references it (ON DELETE RESTRICT)
LogoutDeleteInstallation(t) ==
    /\ lo[t].pc = "deleteInstallation"
    /\ IF inst[t].present /\ MessagesOf(t) = {}
       THEN /\ inst' = [inst EXCEPT ![t] = NoInst]
            /\ lo' = [lo EXCEPT ![t].pc = "deleteSession"]
       ELSE /\ inst' = inst
            /\ lo' = [lo EXCEPT ![t] = NoLogout]
    /\ UNCHANGED <<msgs, nextId, now, cyc, posts, slackAt, svcVars, sess, sessions, sch>>
    /\ UNCHANGED authVars

\* logout: deleteSession(token) returns and the handler answers 200; it
\* throws (500) when no session row has the token
LogoutDeleteSession(t) ==
    /\ lo[t].pc = "deleteSession"
    /\ IF sess[t] = lo[t].tok
       THEN /\ sess' = [sess EXCEPT ![t] = 0]
            /\ sessExp' = [sessExp EXCEPT ![t] = 0]
            /\ lo' = [lo EXCEPT ![t].pc = "success"]
       ELSE /\ UNCHANGED <<sess, sessExp>>
            /\ lo' = [lo EXCEPT ![t] = NoLogout]
    /\ UNCHANGED <<vars, svcVars, sessions, sch>>
    /\ UNCHANGED <<oauthStates, generated, verify, auth>>

\* logout: an awaited database call rejects for a database error; the
\* handler answers 500
LogoutError(t) ==
    /\ lo[t].pc \in {"find", "deleteMessages", "deleteInstallation", "deleteSession"}
    /\ lo' = [lo EXCEPT ![t] = NoLogout]
    /\ UNCHANGED <<vars, svcVars, sess, sessions, sch>>
    /\ UNCHANGED authVars

\* the client has the 200 of its logout
LogoutDone(t) ==
    /\ lo[t].pc = "success"
    /\ lo' = [lo EXCEPT ![t] = NoLogout]
    /\ UNCHANGED <<vars, svcVars, sess, sessions, sch>>
    /\ UNCHANGED authVars

\* POST /api/schedule-message arrives with the tenant's session token;
\* authenticate finds the session and the handler awaits the installation
ScheduleStart(t, at, asUser) ==
    /\ sch[t].pc = "idle"
    /\ sess[t] # 0
    /\ now <= sessExp[t]
    /\ nextId <= MaxMsgs
    /\ sch' = [sch EXCEPT ![t] = [pc |-> "find", sendAt |-> at, asUser |-> asUser]]
    /\ UNCHANGED <<vars, svcVars, sess, sessions, lo>>
    /\ UNCHANGED authVars

\* scheduleMessage: the installation is found with the token the message
\* needs (or 404, 400) and chat.scheduleMessage is awaited
ScheduleFind(t) ==
    /\ sch[t].pc = "find"
    /\ sch' = [sch EXCEPT ![t] =
                 IF inst[t].present /\ SelectToken(t, inst[t], sch[t].asUser) # NoToken
                 THEN [@ EXCEPT !.pc = "slack"]
                 ELSE NoSchedule]
    /\ UNCHANGED <<vars, svcVars, sess, sessions, lo>>
    /\ UNCHANGED authVars

\* ScheduleSlack as it would be without the test of result.ok
ScheduleSlack_IgnoresResult(t, slackOk) ==
    /\ sch[t].pc = "slack"
    /\ sch' = [sch EXCEPT ![t].pc = "create"]
    /\ UNCHANGED <<vars, svcVars, sess, sessions, lo>>
    /\ UNCHANGED authVars

\* scheduleMessage: chat.scheduleMessage returns; when ok,
\* createScheduledMessage is awaited
ScheduleSlack(t, slackOk) ==
    /\ sch[t].pc = "slack"
    /\ sch' = [sch EXCEPT ![t] = IF slackOk THEN [@ EXCEPT !.pc = "create"] ELSE NoSchedule]
    /\ UNCHANGED <<vars, svcVars, sess, sessions, lo>>
    /\ UNCHANGED authVars

\* ScheduleCreate as it would be without the foreign key from
\* ScheduledMessage.installationId to SlackInstallation.id
ScheduleCreate_NoForeignKey(t) ==
    /\ sch[t].pc = "create"
    /\ IF nextId <= MaxMsgs
       THEN /\ msgs' = [msgs EXCEPT ![nextId] =
                          [status |-> "PENDING", inst |-> t, sendAt |-> sch[t].sendAt,
                           asUser |-> sch[t].asUser]]
            /\ slackAt' = [slackAt EXCEPT ![nextId] = sch[t].sendAt]
            /\ nextId' = nextId + 1
       ELSE UNCHANGED <<msgs, slackAt, nextId>>
    /\ sch' = [sch EXCEPT ![t] = NoSchedule]
    /\ UNCHANGED <<inst, now, cyc, posts, svcVars, sess, sessions, lo>>
    /\ UNCHANGED authVars

\* scheduleMessage: the insert returns; it throws (500) when the
\* installation row it references is gone
ScheduleCreate(t) ==
    /\ sch[t].pc = "create"
    /\ IF inst[t].present /\ nextId <= MaxMsgs
       THEN /\ msgs' = [msgs EXCEPT ![nextId] =
                          [status |-> "PENDING", inst |-> t, sendAt |-> sch[t].sendAt,
                           asUser |-> sch[t].asUser]]
            /\ slackAt' = [slackAt EXCEPT ![nextId] = sch[t].sendAt]
            /\ nextId' = nextId + 1
       ELSE UNCHANGED <<msgs, slackAt, nextId>>
    /\ sch' = [sch EXCEPT ![t] = NoSchedule]
    /\ UNCHANGED <<inst, now, cyc, posts, svcVars, sess, sessions, lo>>
    /\ UNCHANGED authVars

\* ---------------------------------------------------------------- clear-installation.ts
\* the script's first statement: scheduledMessage.deleteMany({})
ClearMessages ==
    /\ msgs' = [m \in MsgIds |-> NoRow]
    /\ UNCHANGED <<nextId, inst, now, cyc, posts, slackAt>>
    /\ UNCHANGED <<svcVars, reqVars, authVars>>

\* the script's second statement: slackInstallation.deleteMany({}), which
\* deletes every installation, or none when a message references one (ON
\* DELETE RESTRICT fails the statement)
ClearInstallations ==
    /\ inst' = IF \E m \in MsgIds : Stored(m) THEN inst ELSE [t \in Tenants |-> NoInst]
    /\ UNCHANGED <<msgs, nextId, now, cyc, posts, slackAt>>
    /\ UNCHANGED <<svcVars, reqVars, authVars>>

\* ---------------------------------------------------------------- OAuth state store
NoVerify == [pc |-> "idle", state |-> 0, found |-> FALSE]

\* generateStateParam: sixteen fresh random bytes are stored in OAuthState
\* and returned
GenerateStateParam ==
    /\ generated < MaxStates
    /\ generated' = generated + 1
    /\ oauthStates' = oauthStates \cup {generated + 1}
    /\ UNCHANGED <<vars, svcVars, reqVars, verify, sessExp, auth>>

\* verifyStateParam is called with a state value: one that was generated, or
\* 0 for a value that never was; it awaits findUnique
VerifyStateParam(v, s) ==
    /\ verify[v].pc = "idle"
    /\ verify' = [verify EXCEPT ![v] = [pc |-> "find", state |-> s, found |-> FALSE]]
    /\ UNCHANGED <<vars, svcVars, reqVars, oauthStates, generated, sessExp, auth>>

\* verifyStateParam: findUnique returns; with a row the delete is awaited,
\* without one 'Invalid state parameter' is thrown
VerifyFind(v) ==
    /\ verify[v].pc = "find"
    /\ verify' = [verify EXCEPT ![v] =
                     IF verify[v].state \in oauthStates
                     THEN [@ EXCEPT !.pc = "delete", !.found = TRUE]
                     ELSE [@ EXCEPT !.pc = "rejected"]]
    /\ UNCHANGED <<vars, svcVars, reqVars, oauthStates, generated, sessExp, auth>>

\* a delete that succeeds whether or not the row is still there (deleteMany)
VerifyDelete_IgnoresMissing(v) ==
    /\ verify[v].pc = "delete"
    /\ oauthStates' = oauthStates \ {verify[v].state}
    /\ verify' = [verify EXCEPT ![v].pc = "accepted"]
    /\ UNCHANGED <<vars, svcVars, reqVars, generated, sessExp, auth>>

\* verifyStateParam: prisma.oAuthState.delete returns and the state is
\* accepted; it throws when the row is no longer there, and the verification
\* fails with that error
VerifyDelete(v) ==
    /\ verify[v].pc = "delete"
    /\ IF verify[v].state \in oauthStates
       THEN /\ oauthStates' = oauthStates \ {verify[v].state}
            /\ verify' = [verify EXCEPT ![v].pc = "accepted"]
       ELSE /\ oauthStates' = oauthStates
            /\ verify' = [verify EXCEPT ![v].pc = "rejected"]
    /\ UNCHANGED <<vars, svcVars, reqVars, generated, sessExp, auth>>

\* verifyStateParam: an awaited database call rejects for a database error
VerifyError(v) ==
    /\ verify[v].pc \in {"find", "delete"}
    /\ verify' = [verify EXCEPT ![v].pc = "failed"]
    /\ UNCHANGED <<vars, svcVars, reqVars, oauthStates, generated, sessExp, auth>>

\* the caller has the rejection; the slot serves the next verification (a
\* slot that accepted keeps the outcome)
VerifyDone(v) ==
    /\ verify[v].pc \in {"rejected", "failed"}
    /\ verify' = [verify EXCEPT ![v] = NoVerify]
    /\ UNCHANGED <<vars, svcVars, reqVars, oauthStates, generated, sessExp, auth>>

\* ---------------------------------------------------------------- authenticate
NoAuth == [pc |-> "idle", token |-> 0, user |-> "none"]

\* getSessionByToken: the rows of UserSession with the token (the token is
\* unique: at most one)
SessionsWith(tok) == {t \in Tenants : tok # 0 /\ sess[t] = tok}

\* a request arrives without an Authorization header, or with one that does
\* not start with 'Bearer ': 401 at once
AuthenticateNoHeader(a) ==
    /\ auth[a].pc = "idle"
    /\ auth' = [auth EXCEPT ![a].pc = "401"]
    /\ UNCHANGED <<vars, svcVars, reqVars, oauthStates, generated, verify, sessExp>>

\* a request arrives with a bearer token; getSessionByToken is awaited
Authenticate(a, tok) ==
    /\ auth[a].pc = "idle"
    /\ auth' = [auth EXCEPT ![a] = [pc |-> "find", token |-> tok, user |-> "none"]]
    /\ UNCHANGED <<vars, svcVars, reqVars, oauthStates, generated, verify, sessExp>>

\* new Date() > session.expiresAt
Expired(t) == now > sessExp[t]

\* authenticate: getSessionByToken returns; no session: 401; an expired one:
\* deleteSession is awaited; otherwise req.user is set and next() is called
AuthFind(a) ==
    /\ auth[a].pc = "find"
    /\ IF SessionsWith(auth[a].token) = {}
       THEN auth' = [auth EXCEPT ![a].pc = "401"]
       ELSE LET t == CHOOSE t \in SessionsWith(auth[a].token) : TRUE IN
            IF Expired(t)
            THEN auth' = [auth EXCEPT ![a].pc = "deleteSession"]
            ELSE auth' = [auth EXCEPT ![a].pc = "next", ![a].user = t]
    /\ UNCHANGED <<vars, svcVars, reqVars, oauthStates, generated, verify, sessExp>>

\* authenticate: deleteSession(token) returns and the answer is 401; it
\* throws when no row has the token any more, and the catch answers 500
AuthDeleteSession(a) ==
    /\ auth[a].pc = "deleteSession"
    /\ IF SessionsWith(auth[a].token) = {}
       THEN /\ auth' = [auth EXCEPT ![a].pc = "500"]
            /\ UNCHANGED <<sess, sessExp>>
       ELSE LET t == CHOOSE t \in SessionsWith(auth[a].token) : TRUE IN
            /\ sess' = [sess EXCEPT ![t] = 0]
            /\ sessExp' = [sessExp EXCEPT ![t] = 0]
            /\ auth' = [auth EXCEPT ![a].pc = "401"]
    /\ UNCHANGED <<vars, svcVars, sessions, lo, sch, oauthStates, generated, verify>>

\* authenticate: an awaited database call rejects for a database error; the
\* catch answers 500
AuthError(a) ==
    /\ auth[a].pc \in {"find", "deleteSession"}
    /\ auth' = [auth EXCEPT ![a].pc = "500"]
    /\ UNCHANGED <<vars, svcVars, reqVars, oauthStates, generated, verify, sessExp>>

\* the response is out, or the route's handler has run
AuthDone(a) ==
    /\ auth[a].pc \in {"401", "500", "next"}
    /\ auth' = [auth EXCEPT ![a] = NoAuth]
    /\ UNCHANGED <<vars, svcVars, reqVars, oauthStates, generated, verify, sessExp>>

\* time passes, beyond the expiry of the sessions
Elapse ==
    /\ now <= MaxTime + SessionTtl
    /\ now' = now + 1
    /\ UNCHANGED <<msgs, nextId, inst, cyc, posts, slackAt>>
    /\ UNCHANGED <<svcVars, reqVars, authVars>>

\* ---------------------------------------------------------------- spec
Init ==
    /\ msgs = [m \in MsgIds |-> NoRow]
    /\ nextId = 1
    /\ inst = [t \in Tenants |-> NoInst]
    /\ now = 0
    /\ cyc = [c \in Cycles |-> IdleCycle]
    /\ posts = [m \in MsgIds |-> 0]
    /\ slackAt = [m \in MsgIds |-> 0]
    /\ cred = [t \in Tenants |-> NoCred]
    /\ call = [k \in Calls |-> NoCall]
    /\ issued = 0
    /\ sess = [t \in Tenants |-> 0]
    /\ sessions = 0
    /\ lo = [t \in Tenants |-> NoLogout]
    /\ sch = [t \in Tenants |-> NoSchedule]
    /\ oauthStates = {}
    /\ generated = 0
    /\ verify = [v \in Verifiers |-> NoVerify]
    /\ sessExp = [t \in Tenants |-> 0]
    /\ auth = [a \in Requests |-> NoAuth]

\* one await of a sendDueMessages invocation returns
Dispatch(c) ==
    \/ PostOk(c)
    \/ PostError(c)
    \/ WriteSent(c)
    \/ WriteSentError(c)
    \/ WriteFailed(c)
    \/ WriteFailedError(c)

SchedulerStep(c) ==
    \/ Tick(c)
    \/ ClaimRead(c)
    \/ ClaimReadError(c)
    \/ ClaimMark(c)
    \/ ClaimMarkError(c)
    \/ Dispatch(c)

\* one request of tenant t is served
Handler(t) ==
    \/ \E bot \in BOOLEAN, user \in BOOLEAN : StoreInstallation(t, bot, user)
    \/ \E at \in 1..MaxTime, asUser \in BOOLEAN, slackOk \in BOOLEAN :
          ScheduleMessage(t, at, asUser, slackOk)
    \/ \E m \in MsgIds : CancelScheduledMessage(t, m)
    \/ Logout(t)

Next ==
    \/ \E c \in Cycles : SchedulerStep(c)
    \/ \E t \in Tenants : Handler(t)
    \/ AdvanceTime

Spec == Init /\ [][Next]_vars

\* The same system with the requests of one tenant, under the scheduling the
\* runtime gives: cron fires every minute (Tick), every awaited call returns
\* (Dispatch), and the claim-phase database calls do not fail forever.
NextOne ==
    \/ \E c \in Cycles : SchedulerStep(c)
    \/ Handler("T1")
    \/ AdvanceTime

Fairness ==
    \A c \in Cycles :
        /\ WF_vars(Tick(c))
        /\ SF_vars(ClaimRead(c))
        /\ SF_vars(ClaimMark(c))
        /\ WF_vars(Dispatch(c))

FairSpec == Init /\ [][NextOne]_vars /\ Fairness

\* The engine with the requests of one tenant, who also schedules messages
\* for an instant the clock does not reach
ScheduleLate(t) ==
    \E asUser \in BOOLEAN, slackOk \in BOOLEAN : ScheduleMessage(t, MaxTime + 1, asUser, slackOk)

NextLate ==
    \/ NextOne
    \/ ScheduleLate("T1")

LateSpec == Init /\ [][NextLate]_vars

\* The engine with one tenant who authorizes, schedules and cancels but does
\* not log out: a row that is gone was removed by a cancel that succeeded
Request(t) ==
    \/ \E bot \in BOOLEAN, user \in BOOLEAN : StoreInstallation(t, bot, user)
    \/ \E at \in 1..MaxTime, asUser \in BOOLEAN, slackOk \in BOOLEAN :
          ScheduleMessage(t, at, asUser, slackOk)
    \/ \E m \in MsgIds : CancelScheduledMessage(t, m)

NextNoLogout ==
    \/ \E c \in Cycles : SchedulerStep(c)
    \/ Request("T1")
    \/ AdvanceTime

CancelSpec == Init /\ [][NextNoLogout]_vars

\* The engine with the requests of one tenant served await by await: the
\* tenant authorizes and logs in, schedules, cancels and logs out, while the
\* scheduler runs
LogoutRequest(t) ==
    \/ LogoutStart(t)
    \/ LogoutFind(t)
    \/ LogoutDeleteMessages(t)
    \/ LogoutDeleteInstallation(t)
    \/ LogoutDeleteSession(t)
    \/ LogoutError(t)
    \/ LogoutDone(t)

ScheduleRequest(t) ==
    \/ \E at \in 1..MaxTime, asUser \in BOOLEAN : ScheduleStart(t, at, asUser)
    \/ ScheduleFind(t)
    \/ \E slackOk \in BOOLEAN : ScheduleSlack(t, slackOk)
    \/ ScheduleCreate(t)

NextAwaits ==
    \/ \E c \in Cycles : SchedulerStep(c)
    \/ Authorize("T1")
    \/ CreateUserSession("T1")
    \/ LogoutRequest("T1")
    \/ ScheduleRequest("T1")
    \/ \E m \in MsgIds : CancelScheduledMessage("T1", m)
    \/ AdvanceTime

LogoutSpec == Init /\ [][NextAwaits]_<<vars, svcVars, reqVars>>

\* The engine with cron invocations that do not overlap (one is over before
\* the next starts), the requests of both tenants, and messages scheduled
\* for an instant the clock does not reach
NextSerial ==
    \/ SchedulerStep(1)
    \/ \E t \in Tenants : Handler(t)
    \/ \E t \in Tenants : ScheduleLate(t)
    \/ AdvanceTime

SerialSpec == Init /\ [][NextSerial]_vars

\* The OAuth state store: states are generated and verified, concurrently
VerifyStep(v) ==
    \/ \E s \in 0..generated : VerifyStateParam(v, s)
    \/ VerifyFind(v)
    \/ VerifyDelete(v)
    \/ VerifyError(v)
    \/ VerifyDone(v)

StateNext ==
    \/ GenerateStateParam
    \/ \E v \in Verifiers : VerifyStep(v)

StateSpec == Init /\ [][StateNext]_authVars

\* The authenticate middleware in front of the protected routes: tenants
\* authorize and log in, requests arrive with the tokens that were issued or
\* with a forged one, and sessions expire
AuthStep(a) ==
    \/ AuthenticateNoHeader(a)
    \/ \E tok \in (1..sessions) \cup {Forged} : Authenticate(a, tok)
    \/ AuthFind(a)
    \/ AuthDeleteSession(a)
    \/ AuthError(a)
    \/ AuthDone(a)

AuthNext ==
    \/ \E t \in Tenants : StoreInstallation(t, TRUE, FALSE)
    \/ \E t \in Tenants : CreateUserSession(t)
    \/ \E a \in Requests : AuthStep(a)
    \/ Elapse

AuthSpec == Init /\ [][AuthNext]_<<vars, reqVars, authVars>>

\* The token service: the calls of getValidAccessToken and getUserToken, the
\* refresh, the reads of sendDueMessages, and the requests that rewrite or
\* delete the installation rows meanwhile.
TokenCall(k) ==
    \/ \E t \in Tenants, withUser \in BOOLEAN : GetValidAccessToken(k, t, withUser)
    \/ FindUnique(k)
    \/ FindFirst(k)
    \/ \E ttl \in 1..MaxTtl, rotated \in BOOLEAN : GrantOk(k, ttl, rotated)
    \/ GrantError(k)
    \/ UpdateData(k)
    \/ UpdateDataError(k)
    \/ \E t \in Tenants : GetUserToken(k, t)
    \/ FindUser(k)
    \/ \E t \in Tenants, asUser \in BOOLEAN : SendDueRead(k, t, asUser)
    \/ SendDuePost(k)
    \/ SendDuePosted(k)
    \/ Return(k)

TokenNext ==
    \/ TokenCall(1)
    \/ \E t \in Tenants, bot \in BOOLEAN, user \in BOOLEAN, rotating \in BOOLEAN, ttl \in 1..MaxTtl :
          StoreInstallationData(t, bot, user, rotating, ttl)
    \/ \E t \in Tenants : DeleteInstallation(t)
    \/ AdvanceTime

TokenSpec == Init /\ [][TokenNext]_<<vars, svcVars, reqVars>>

\* The schedule-message requests of one tenant served await by await, while
\* the tenant authorizes, logs in and logs out
NextSchedule ==
    \/ Authorize("T1")
    \/ CreateUserSession("T1")
    \/ ScheduleRequest("T1")
    \/ LogoutRequest("T1")
    \/ AdvanceTime

ScheduleSpec == Init /\ [][NextSchedule]_<<vars, reqVars, authVars>>

\* The requests of one tenant served await by await and one scheduler cycle
\* at a time, while the clear-installation script's statements run
NextIntegrity ==
    \/ SchedulerStep(1)
    \/ Authorize("T1")
    \/ CreateUserSession("T1")
    \/ LogoutRequest("T1")
    \/ ScheduleRequest("T1")
    \/ \E m \in MsgIds : CancelScheduledMessage("T1", m)
    \/ ClearMessages
    \/ ClearInstallations
    \/ AdvanceTime

IntegritySpec == Init /\ [][NextIntegrity]_<<vars, reqVars, authVars>>

\* The installation table in full (id and data) beside the engine: two
\* tenants authorize again and again while one of them schedules and
\* cancels and a scheduler cycle runs
NextInstall ==
    \/ SchedulerStep(1)
    \/ Request("T1")
    \/ \E t \in Tenants, bot \in BOOLEAN, user \in BOOLEAN :
          StoreInstallationData(t, bot, user, FALSE, 1)
    \/ AdvanceTime

InstallSpec == Init /\ [][NextInstall]_<<vars, svcVars>>

\* The engine with one cycle at a time and two tenants who authorize,
\* schedule and cancel, each also with the other's message ids
NextOwner ==
    \/ SchedulerStep(1)
    \/ \E t \in Tenants : Request(t)
    \/ AdvanceTime

OwnerSpec == Init /\ [][NextOwner]_vars

\* The token service with concurrent calls of getValidAccessToken for one
\* tenant, whose installation is stored with a rotating bot token
RaceCall(k) ==
    \/ GetValidAccessToken(k, "T1", TRUE)
    \/ FindUnique(k)
    \/ FindFirst(k)
    \/ \E rotated \in BOOLEAN : GrantOk(k, 1, rotated)
    \/ GrantError(k)
    \/ UpdateData(k)
    \/ UpdateDataError(k)
    \/ Return(k)

RaceNext ==
    \/ \E k \in Calls : RaceCall(k)
    \/ \E user \in BOOLEAN : StoreInstallationData("T1", TRUE, user, TRUE, 1)
    \/ AdvanceTime

RaceSpec == Init /\ [][RaceNext]_<<vars, svcVars>>

\* ---------------------------------------------------------------- claims
\* findAndMarkDueMessages has returned to cycle c, which is in its for loop
Dispatching(c) == cyc[c].pc \in {"post", "markSent", "catch"}

\* the message cycle c is handling
Current(c) == Head(cyc[c].batch).id

\* deliveries of message m to its channel: the poller's posts, and Slack's own
\* delivery of what chat.scheduleMessage registered, made at post_at
SlackDelivered(m) == slackAt[m] # 0 /\ slackAt[m] <= now
Deliveries(m) == posts[m] + (IF SlackDelivered(m) THEN 1 ELSE 0)

\* C1: no scheduled message is posted by chat.postMessage more than once,
\* however the cycles interleave
C1_NoDoublePost ==
    \A m \in MsgIds : posts[m] <= 1

\* C2: no message is returned by findAndMarkDueMessages to two cycles
C2_ClaimedByOneCall ==
    \A c1, c2 \in Cycles :
        (c1 # c2 /\ Dispatching(c1) /\ Dispatching(c2))
            => BatchIds(cyc[c1].batch) \cap BatchIds(cyc[c2].batch) = {}

\* C3: a message that was scheduled and not cancelled is never delivered more
\* than once, counting Slack's delivery and the poller's posts
C3_DeliveredOnce ==
    \A m \in MsgIds : Stored(m) => Deliveries(m) <= 1

\* C4: a stored message's status never leaves SENT or FAILED, and never
\* becomes PENDING again
C4_StatusForward ==
    [][\A m \in MsgIds :
          /\ (msgs[m].status \in {"SENT", "FAILED"} /\ msgs'[m].status # "NONE")
                => msgs'[m].status = msgs[m].status
          /\ msgs[m].status \in {"PROCESSING", "SENT", "FAILED"}
                => msgs'[m].status # "PENDING"]_vars

\* C5: a cancel removes the caller's PENDING message, and changes nothing when
\* the message is PROCESSING, SENT or FAILED or when there is no such message
C5_CancelOnlyPending ==
    [][\A t \in Tenants, m \in MsgIds :
          CancelScheduledMessage(t, m) =>
              /\ (inst[t].present /\ msgs[m].inst = t /\ msgs[m].status = "PENDING")
                    => msgs'[m].status = "NONE"
              /\ msgs[m].status \in {"PROCESSING", "SENT", "FAILED", "NONE"}
                    => msgs' = msgs]_vars

\* C6: a cycle in its for loop leaves its batch as it is or moves on to the
\* next message; it never drops the messages that remain
C6_BatchNotAborted ==
    [][\A c \in Cycles :
          Dispatching(c) =>
              \/ cyc'[c].batch = cyc[c].batch
              \/ cyc'[c].batch = Tail(cyc[c].batch)]_vars

\* C9: when a cycle is done with a message, the message is stored with status
\* SENT if postMessage reported ok for it, and with status FAILED otherwise
C9_StatusMatchesGateway ==
    [][\A c \in Cycles :
          (Dispatching(c) /\ cyc'[c].batch # cyc[c].batch) =>
              msgs'[Current(c)].status = (IF cyc[c].gwOk THEN "SENT" ELSE "FAILED")]_vars

\* C10: a postMessage call is started for a message only when, at that time,
\* the installation of the message's tenant is stored and holds the token the
\* message needs; and a message whose token is missing becomes FAILED and the
\* cycle goes on with the next one
C10_NoSendWithoutToken ==
    [][\A c \in Cycles :
          /\ (cyc'[c].pc = "post" /\ cyc'[c] # cyc[c]) =>
                LET tok == Head(cyc'[c].batch).tok IN
                /\ inst'[tok.owner].present
                /\ SelectToken(tok.owner, inst'[tok.owner], tok.kind = "user") = tok
          /\ (cyc[c].pc = "catch" /\ Head(cyc[c].batch).tok = NoToken /\ cyc'[c] # cyc[c]) =>
                /\ msgs'[Current(c)].status = "FAILED"
                /\ cyc'[c] = LoopAt(Tail(cyc[c].batch))]_vars

\* C7: every stored message that is PROCESSING eventually is SENT or FAILED
\* (or is deleted)
C7_ProcessingEnds ==
    \A m \in MsgIds :
        (msgs[m].status = "PROCESSING") ~> (msgs[m].status \in {"SENT", "FAILED", "NONE"})

\* C8: every message that is PENDING and due eventually leaves PENDING: a
\* cycle claims it (or a cancel or logout deletes it), whatever errors earlier
\* cycles ended with
C8_DueEventuallyClaimed ==
    \A m \in MsgIds :
        (msgs[m].status = "PENDING" /\ msgs[m].sendAt <= now) ~> (msgs[m].status # "PENDING")

\* C8 happens: a cycle ended with an error (its promise rejected) while a
\* message is PENDING and due
C8_Witness ==
    \E c \in Cycles, m \in MsgIds :
        /\ cyc[c].pc = "rejected"
        /\ msgs[m].status = "PENDING"
        /\ msgs[m].sendAt <= now

\* ---------------------------------------------------------------- claims on the token service
\* the stored sub-credential can be refreshed and is inside the refresh window
InWindow(sub) ==
    /\ sub.token # 0
    /\ sub.refreshToken # 0
    /\ sub.expiresAt # 0
    /\ ~NotExpiring(sub)

\* C11: when sendDueMessages starts chat.postMessage for a message while the
\* stored sub-credential the message needs is inside the refresh window, a
\* refresh grant was attempted for it by that invocation
C11_SchedulerRefreshes ==
    [][\A k \in Calls :
          (call[k].fn = "sendDueMessages" /\ call[k].pc = "claimed" /\ call'[k].pc = "post") =>
              LET sub == Selected(cred[call[k].key], call[k].asUser) IN
              InWindow(sub) => call'[k].grants > 0]_svcVars

\* ---------------------------------------------------------------- claims on the claim of due messages
\* C12: a stored message whose sendAt is later than now is in no batch that
\* findAndMarkDueMessages returns and is left as it is by its two database
\* calls; the rows findMany returns are PENDING with sendAt <= now, and the
\* rows updateMany changes are among them
C12_OnlyDueClaimed ==
    [][/\ \A m \in MsgIds :
            (Stored(m) /\ msgs[m].sendAt > now) =>
                /\ \A c \in Cycles : m \notin BatchIds(cyc'[c].batch)
                /\ (\E c \in Cycles : ClaimRead(c) \/ ClaimMark(c)) => msgs'[m] = msgs[m]
       /\ \A c \in Cycles :
            /\ (cyc[c].pc = "read" /\ cyc'[c].pc = "mark") =>
                  \A m \in BatchIds(cyc'[c].batch) :
                      msgs[m].status = "PENDING" /\ msgs[m].sendAt <= now
            /\ (cyc[c].pc = "mark" /\ cyc'[c].pc # "mark") =>
                  \A m \in MsgIds :
                      msgs'[m] # msgs[m] => m \in BatchIds(cyc[c].batch)]_vars

\* C12 happens: findAndMarkDueMessages has returned a batch to a cycle while
\* another message is stored PENDING for a later instant
C12_Witness ==
    \E c \in Cycles, m \in MsgIds :
        /\ Dispatching(c)
        /\ msgs[m].status = "PENDING"
        /\ msgs[m].sendAt > now
        /\ m \notin BatchIds(cyc[c].batch)

\* getValidAccessToken has just read the installation row it works with
RowFound(k) ==
    /\ call[k].fn = "getValidAccessToken"
    /\ call[k].pc \in {"findUnique", "findFirst"}
    /\ call'[k].src # "none"

\* C13: when the bot token of the row getValidAccessToken found expires more
\* than ten minutes from now, the call returns that token, calls no refresh
\* grant and writes nothing
C13_ValidTokenReturned ==
    [][\A k \in Calls :
          (RowFound(k) /\ call'[k].snap.bot.expiresAt > now + Margin) =>
              /\ call'[k].pc = "done"
              /\ call'[k].result = cred[call'[k].src].bot.token
              /\ call'[k].result # 0
              /\ call'[k].grants = 0
              /\ cred' = cred
              /\ issued' = issued]_svcVars

\* C13 happens: a call returned the token of a row that holds a refresh token
\* and an expiresAt more than ten minutes away
C13_Witness ==
    \E k \in Calls :
        /\ call[k].fn = "getValidAccessToken"
        /\ call[k].pc = "done"
        /\ call[k].snap.bot.refreshToken # 0
        /\ call[k].snap.bot.expiresAt > now + Margin
        /\ call[k].result = call[k].snap.bot.token

\* C14: when the bot token of the row found has a refresh token and an
\* expiresAt at or before now + ten minutes, the call makes one refresh grant
\* call; and when the grant has returned a new token pair, the call ends
\* returning the new token, with the new token and the new expiresAt in the
\* stored row, after that one grant call
C14_RefreshPersisted ==
    [][\A k \in Calls :
          /\ (/\ RowFound(k)
              /\ call'[k].snap.bot.token # 0
              /\ call'[k].snap.bot.refreshToken # 0
              /\ call'[k].snap.bot.expiresAt # 0
              /\ call'[k].snap.bot.expiresAt <= now + Margin) =>
                  /\ call'[k].pc = "grant"
                  /\ call'[k].grants = 1
          /\ (call[k].pc = "update" /\ call'[k].pc = "done") =>
                  /\ call'[k].grants = 1
                  /\ call'[k].result = call[k].new.token
                  /\ cred'[call[k].src].bot.token = call[k].new.token
                  /\ cred'[call[k].src].bot.expiresAt = call[k].new.expiresAt]_svcVars

\* C15: when the refresh grant call fails, the call ends there: it returns
\* the token it read, which is not null, after the one grant call, with the
\* stored rows as they were
C15_GrantFailureKeepsToken ==
    [][\A k \in Calls :
          (call[k].pc = "grant" /\ call'[k].pc # "update" /\ call'[k] # call[k]) =>
              /\ call'[k].pc = "done"
              /\ call'[k].result = call[k].snap.bot.token
              /\ call'[k].result # 0
              /\ call'[k].grants = 1
              /\ cred' = cred
              /\ issued' = issued]_svcVars

\* C15 happens: a call whose refresh grant failed has returned
C15_Witness ==
    \E k \in Calls :
        /\ call[k].pc = "done"
        /\ call[k].grants = 1
        /\ call[k].new = NoSub
        /\ call[k].result = call[k].snap.bot.token

\* C16: when the user token is asked for and the stored user sub-credential
\* has a refresh token and an expiresAt inside the refresh window, the call
\* does not return that token without a refresh grant call
C16_UserTokenRefreshed ==
    [][\A k \in Calls :
          (/\ call[k].fn = "getUserToken"
           /\ call[k].pc = "findUser"
           /\ call'[k].pc = "done"
           /\ InWindow(cred[call[k].key].user)) =>
              \/ call'[k].grants > 0
              \/ call'[k].result # cred[call[k].key].user.token]_svcVars

\* C17: a call getValidAccessToken(teamId, userId) works with no row but the
\* one of the tenant (teamId, userId): it reads, returns, refreshes and
\* writes no other tenant's row
C17_OwnRecordOnly ==
    \A k \in Calls :
        (call[k].fn = "getValidAccessToken" /\ call[k].withUser) =>
            call[k].src \in {"none", call[k].key}

\* C18: the write of a successful refresh changes the bot sub-credential of
\* one row and nothing else: the row's user sub-credential and the other
\* rows are as they were in the store before the write
C18_RefreshWritesBotOnly ==
    [][\A k \in Calls :
          (call[k].pc = "update" /\ call'[k].pc = "done" /\ cred' # cred) =>
              /\ cred'[call[k].src].user = cred[call[k].src].user
              /\ cred'[call[k].src].id = cred[call[k].src].id
              /\ \A t \in Tenants \ {call[k].src} : cred'[t] = cred[t]]_svcVars

\* ---------------------------------------------------------------- claims on cancel and logout
\* message m was stored and its row is gone (ids are given out in order and
\* never again)
Removed(m) == m < nextId /\ ~Stored(m)

\* C19: once a cancel has removed a message, no cycle starts a
\* chat.postMessage call for it
C19_NoPostAfterCancel ==
    [][\A c \in Cycles :
          (cyc'[c].pc = "post" /\ cyc'[c] # cyc[c]) => ~Removed(Head(cyc'[c].batch).id)]_vars

\* C20: when logout answers 200 for a tenant, no row of ScheduledMessage
\* references the tenant's installation, the installation row is gone and
\* no session row holds the token the request came with; and that token is
\* in no session row as long as the answer stands
C20_LogoutComplete ==
    [][\A t \in Tenants :
          /\ (lo[t].pc = "deleteSession" /\ lo'[t].pc = "success") =>
                /\ \A m \in MsgIds : msgs'[m].inst # t
                /\ ~inst'[t].present
                /\ sess'[t] # lo[t].tok
          /\ lo[t].pc = "success" => sess[t] # lo[t].tok]_<<vars, reqVars>>

\* C20 happens: a logout has answered 200 although, while it was in
\* progress, a schedule request of the tenant was being served and a cycle
\* of the scheduler was running
C20_Witness ==
    \E t \in Tenants, c \in Cycles :
        /\ lo[t].pc = "success"
        /\ sch[t].pc # "idle"
        /\ cyc[c].pc \notin {"idle", "rejected"}

\* ---------------------------------------------------------------- claims on the list of pending messages
\* C21: findPendingMessagesByInstallationId(t) returns each stored message of
\* tenant t whose status is PENDING once, nothing else, in ascending order
\* of sendAt
C21_ListsOwnPending ==
    \A t \in Tenants :
        LET r == FindPendingMessagesByInstallationId(t) IN
        /\ {r[i] : i \in 1..Len(r)} =
               {m \in MsgIds : Stored(m) /\ msgs[m].inst = t /\ msgs[m].status = "PENDING"}
        /\ \A i, j \in 1..Len(r) : i < j => r[i] # r[j] /\ msgs[r[i]].sendAt <= msgs[r[j]].sendAt

\* C21 happens: the list of a tenant has two messages, the one that was
\* stored second first
C21_Witness ==
    \E t \in Tenants :
        LET r == FindPendingMessagesByInstallationId(t) IN
        /\ Len(r) = 2
        /\ r[1] > r[2]
        /\ msgs[r[1]].sendAt < msgs[r[2]].sendAt

\* C22: an OAuth state value is single-use. A verification accepts only a
\* state that generateStateParam stored, the state is no longer stored once
\* it is accepted, no two verifications accept the same state, and a state
\* that was never generated is not accepted.
C22_StateSingleUse ==
    \A v \in Verifiers :
        verify[v].pc = "accepted" =>
            /\ verify[v].state \in 1..generated
            /\ verify[v].state \notin oauthStates
            /\ \A w \in Verifiers \ {v} :
                   ~(verify[w].pc = "accepted" /\ verify[w].state = verify[v].state)

\* C22: two verifications of one state both found its row; one of them
\* accepted it and the other was rejected by its delete
C22_Witness ==
    \E v, w \in Verifiers :
        /\ verify[v].pc = "accepted"
        /\ verify[w].pc = "rejected"
        /\ verify[w].found
        /\ verify[w].state = verify[v].state

\* C23: a request that authenticate found with an expired session is
\* answered 401 and the session is deleted
C23_ExpiredAnswered401 ==
    [][\A a \in Requests :
          AuthDeleteSession(a) =>
              /\ auth'[a].pc = "401"
              /\ \A t \in Tenants : sess'[t] # auth[a].token]_<<vars, reqVars, authVars>>

\* ---------------------------------------------------------------- claims on the refresh
\* C24: when the bot sub-credential of the row getValidAccessToken found has
\* an access token but no expiresAt or no refresh token, the call returns
\* that access token, calls no refresh grant and writes nothing, whatever
\* the time
C24_NonExpiringReturned ==
    [][\A k \in Calls :
          (/\ RowFound(k)
           /\ call'[k].snap.bot.token # 0
           /\ (call'[k].snap.bot.expiresAt = 0 \/ call'[k].snap.bot.refreshToken = 0)) =>
              /\ call'[k].pc = "done"
              /\ call'[k].result = cred[call'[k].src].bot.token
              /\ call'[k].result # 0
              /\ call'[k].grants = 0
              /\ cred' = cred
              /\ issued' = issued]_svcVars

\* C24 happens: a call returned the token of a sub-credential without
\* refresh token whose expiresAt has passed
C24_Witness ==
    \E k \in Calls :
        /\ call[k].fn = "getValidAccessToken"
        /\ call[k].pc = "done"
        /\ call[k].grants = 0
        /\ call[k].snap.bot.token # 0
        /\ call[k].snap.bot.refreshToken = 0
        /\ call[k].snap.bot.expiresAt # 0
        /\ call[k].snap.bot.expiresAt <= now
        /\ call[k].result = call[k].snap.bot.token

\* C25: when the refresh response carried no new refresh token, the stored
\* sub-credential keeps the refresh token the grant was made with
C25_RefreshTokenKept ==
    [][\A k \in Calls :
          (/\ call[k].pc = "update"
           /\ call'[k].pc = "done"
           /\ cred' # cred
           /\ call[k].new.refreshToken = 0) =>
              cred'[call[k].src].bot.refreshToken = call[k].snap.bot.refreshToken]_svcVars

\* ---------------------------------------------------------------- claims on the cycle
\* C26: within one cycle dispatch is sequential. A cycle starts the send of a
\* message either right after its claim, for the first message of the batch,
\* or in the step in which the final status write of the message before it
\* returns; and it goes on to the next message of its batch in no other step
\* than the return of a final status write.
C26_SequentialDispatch ==
    [][\A c \in Cycles :
          /\ (cyc'[c].pc = "post" /\ cyc'[c] # cyc[c]) =>
                \/ cyc[c].pc = "mark" /\ cyc'[c].batch = cyc[c].batch
                \/ /\ cyc[c].pc \in {"markSent", "catch"}
                   /\ cyc'[c].batch = Tail(cyc[c].batch)
                   /\ msgs'[Head(cyc[c].batch).id].status \in {"SENT", "FAILED"}
          /\ (Dispatching(c) /\ Dispatching(c)' /\ cyc'[c].batch # cyc[c].batch) =>
                /\ cyc[c].pc \in {"markSent", "catch"}
                /\ cyc'[c].batch = Tail(cyc[c].batch)]_vars

\* C26 happens: the first message of a batch of two is posted and its SENT
\* write is in flight, while the second waits
C26_Witness ==
    \E c \in Cycles :
        /\ cyc[c].pc = "markSent"
        /\ Len(cyc[c].batch) = 2
        /\ cyc[c].batch[2].tok # NoToken
        /\ posts[cyc[c].batch[2].id] = 0

\* C27: the batch of a cycle is the snapshot its claim read took. The read
\* returns every message that is PENDING and due at that instant and no
\* other; afterwards the batch gains no message; and a message that is not
\* in the batch of the cycle that marks stays PENDING: a stored message
\* leaves PENDING only in the marking step of a cycle whose batch holds it,
\* and is posted only by a cycle whose batch holds it.
C27_BatchIsSnapshot ==
    [][/\ \A c \in Cycles :
            /\ (cyc[c].pc = "read" /\ cyc'[c].pc # "read" /\ cyc'[c] # Rejected) =>
                  BatchIds(cyc'[c].batch) =
                      {m \in MsgIds : msgs[m].status = "PENDING" /\ msgs[m].sendAt <= now}
            /\ cyc[c].pc \notin {"idle", "rejected", "read"} =>
                  BatchIds(cyc'[c].batch) \subseteq BatchIds(cyc[c].batch)
       /\ \A m \in MsgIds :
            /\ (msgs[m].status = "PENDING" /\ msgs'[m].status \notin {"PENDING", "NONE"}) =>
                  /\ msgs'[m].status = "PROCESSING"
                  /\ \E c \in Cycles : cyc[c].pc = "mark" /\ m \in BatchIds(cyc[c].batch)
            /\ posts'[m] # posts[m] =>
                  \E c \in Cycles : cyc[c].pc = "post" /\ Current(c) = m]_vars

\* C27 happens: a cycle is dispatching its batch while a message that became
\* due, or was created, after its read is stored PENDING and due
C27_Witness ==
    \E c \in Cycles, m \in MsgIds :
        /\ Dispatching(c)
        /\ msgs[m].status = "PENDING"
        /\ msgs[m].sendAt <= now
        /\ m \notin BatchIds(cyc[c].batch)
        /\ \A d \in Cycles : m \notin BatchIds(cyc[d].batch)

C29_ClaimedOnce ==
    [][/\ \A m \in MsgIds :
            /\ msgs[m].status \in {"PROCESSING", "SENT", "FAILED"} =>
                  /\ msgs'[m].status # "PENDING"
                  /\ \A c \in Cycles :
                        cyc[c].pc = "read" => m \notin BatchIds(cyc'[c].batch)
            /\ posts'[m] <= 1
       /\ \A c \in Cycles :
            (cyc[c].pc = "mark" /\ cyc'[c].pc # "mark" /\ cyc'[c] # Rejected) =>
                \A m \in BatchIds(cyc[c].batch) :
                    Stored(m) => /\ msgs[m].status = "PENDING"
                                 /\ msgs'[m].status = "PROCESSING"]_vars

\* C29 happens: a claim has read its batch while a due message that an
\* earlier cycle posted and marked SENT is stored, and the batch does not
\* hold it
C29_Witness ==
    \E m \in MsgIds :
        /\ cyc[1].pc = "mark"
        /\ msgs[m].status = "SENT"
        /\ msgs[m].sendAt <= now
        /\ posts[m] = 1
        /\ m \notin BatchIds(cyc[1].batch)

\* C30: when two calls of getValidAccessToken hold a refresh response for
\* the same row at the same time, each of them ends returning the access
\* token of its own response, with the bot sub-credential of the stored row
\* equal to that response as a whole
C30_LastWriteWins ==
    [][\A k \in Calls :
          (/\ call[k].pc = "update"
           /\ call'[k].pc = "done"
           /\ \E j \in Calls \ {k} :
                 /\ call[j].pc \in {"update", "done"}
                 /\ call[j].src = call[k].src
                 /\ call[j].new # NoSub) =>
              /\ call'[k].result = call[k].new.token
              /\ cred'[call[k].src].bot = call[k].new]_svcVars

\* ---------------------------------------------------------------- claims on the handlers
\* C31: a cancel request of a tenant for a stored message of another
\* tenant's installation is answered 403 and changes no message; a cancel
\* that removes a message is answered 200, is the owner's, and leaves every
\* other message as it was
C31_CancelOwnOnly ==
    [][\A t \in Tenants, m \in MsgIds :
          CancelScheduledMessage(t, m) =>
              /\ (inst[t].present /\ Stored(m) /\ msgs[m].inst # t) =>
                    /\ CancelResponse(t, m) = 403
                    /\ msgs' = msgs
              /\ msgs' # msgs =>
                    /\ CancelResponse(t, m) = 200
                    /\ msgs[m].inst = t
                    /\ \A n \in MsgIds \ {m} : msgs'[n] = msgs[n]]_vars

\* C31 happens: a tenant with an installation can ask for the cancel of a
\* stored message of the other tenant, while it has a message of its own
C31_Witness ==
    \E t \in Tenants, m, n \in MsgIds :
        /\ inst[t].present
        /\ Stored(m)
        /\ msgs[m].inst # t
        /\ CancelResponse(t, m) = 403
        /\ msgs[n].inst = t

\* C32: scheduleMessage creates a row only as the last of its steps. The
\* request awaits chat.scheduleMessage only after it found the installation
\* with the token the message needs, and awaits the insert only after
\* chat.scheduleMessage returned ok; a row that appears is the PENDING row of
\* a request at its insert, for an installation that exists; and a request
\* that ends before its insert, or whose Slack call is not ok or throws,
\* leaves the tables as they were.
C32_RowOnlyAfterSlackOk ==
    [][\A t \in Tenants :
          /\ (sch'[t].pc = "slack" /\ sch[t].pc # "slack") =>
                /\ sch[t].pc = "find"
                /\ inst[t].present
                /\ SelectToken(t, inst[t], sch[t].asUser) # NoToken
          /\ (sch'[t].pc = "create" /\ sch[t].pc # "create") => sch[t].pc = "slack"
          /\ ScheduleSlack(t, FALSE) => sch'[t] = NoSchedule
          /\ (sch[t].pc \in {"find", "slack"} /\ sch'[t].pc = "idle") =>
                /\ msgs' = msgs
                /\ nextId' = nextId
                /\ inst' = inst
          /\ \A m \in MsgIds :
                (msgs[m].status = "NONE" /\ msgs'[m].status # "NONE" /\ msgs'[m].inst = t) =>
                    /\ sch[t].pc = "create"
                    /\ sch'[t].pc = "idle"
                    /\ inst[t].present
                    /\ msgs'[m] = [status |-> "PENDING", inst |-> t,
                                   sendAt |-> sch[t].sendAt, asUser |-> sch[t].asUser]
          /\ (sch[t].pc = "create" /\ sch'[t].pc = "idle" /\ ~inst[t].present) =>
                /\ msgs' = msgs
                /\ nextId' = nextId]_<<vars, reqVars>>

\* C32 happens: a request whose Slack call returned ok awaits its insert
\* while the installation it found is gone
C32_Witness ==
    \E t \in Tenants :
        /\ sch[t].pc = "create"
        /\ ~inst[t].present

\* C33: every stored message references an installation that exists, and the
\* installation of a tenant is deleted only when no message references it
C33_MessagesHaveInstallation ==
    [][/\ \A m \in MsgIds : Stored(m)' => inst'[msgs'[m].inst].present
       /\ \A t \in Tenants :
            (inst[t].present /\ ~inst'[t].present) => MessagesOf(t) = {}]_<<vars, reqVars>>

\* C33 happens: a logout has deleted the tenant's messages and awaits the
\* delete of the installation, which a message scheduled meanwhile references
C33_Witness ==
    \E t \in Tenants :
        /\ lo[t].pc = "deleteInstallation"
        /\ inst[t].present
        /\ MessagesOf(t) # {}

\* C34: there is one session row per tenant (userId, teamId), and
\* createUserSession puts a token in it that no row held before, so the
\* token it replaces is in no row afterwards; no two rows hold the same
\* token; and authenticate lets a request through only with the token that
\* is in a row at that instant: a request with a replaced token is not let
\* through.
C34_OneSessionPerTenant ==
    [][/\ \A t \in Tenants :
            CreateUserSession(t) =>
                /\ sess'[t] # 0
                /\ \A u \in Tenants : sess[u] # sess'[t]
                /\ \A u \in Tenants : sess[t] # 0 => sess'[u] # sess[t]
       /\ \A t, u \in Tenants : (t # u /\ sess'[t] # 0) => sess'[t] # sess'[u]
       /\ \A a \in Requests :
            /\ (auth[a].pc = "find" /\ auth'[a].pc = "next") =>
                  sess[auth'[a].user] = auth[a].token
            /\ (/\ auth[a].pc = "find"
                /\ auth'[a] # auth[a]
                /\ \A t \in Tenants : sess[t] # auth[a].token) =>
                  auth'[a].pc \in {"401", "500"}]_<<vars, reqVars, authVars>>

\* C34 happens: a request with the token a tenant's second login replaced
\* was answered 401, before any session expired
C34_Witness ==
    \E a \in Requests, t \in Tenants :
        /\ auth[a].pc = "401"
        /\ auth[a].token # 0
        /\ auth[a].token < sess[t]
        /\ \A u \in Tenants \ {t} : sess[u] = 0
        /\ now <= SessionTtl

\* C35: there is one installation record per tenant (teamId, userId), with
\* an id no other record has; storing an installation for a tenant that has
\* a record keeps the record's id and replaces its data, and storing leaves
\* the other tenants' records and every message, with its status and the
\* installation it references, as they were
C35_UpsertKeepsId ==
    [][/\ \A t \in Tenants, bot \in BOOLEAN, user \in BOOLEAN :
            StoreInstallationData(t, bot, user, FALSE, 1) =>
                /\ cred[t].id # 0 => cred'[t].id = cred[t].id
                /\ cred'[t].id # 0
                /\ cred'[t].bot.token \in {0, issued'}
                /\ cred'[t].user.token \in {0, issued'}
                /\ \A u \in Tenants \ {t} : cred'[u] = cred[u] /\ cred'[u].id # cred'[t].id
                /\ msgs' = msgs
       /\ \A t \in Tenants, bot \in BOOLEAN, user \in BOOLEAN :
            StoreInstallation(t, bot, user) =>
                /\ inst'[t] = [present |-> TRUE, bot |-> bot, user |-> user]
                /\ \A u \in Tenants \ {t} : inst'[u] = inst[u]
                /\ msgs' = msgs]_<<vars, svcVars>>

\* C35 happens: a tenant's record was stored again (it holds a token issued
\* after the one it was created with) while a message the scheduler has
\* claimed or dispatched references the tenant's installation
C35_Witness ==
    \E t \in Tenants, m \in MsgIds :
        /\ cred[t].id # 0
        /\ (cred[t].bot.token > cred[t].id \/ cred[t].user.token > cred[t].id)
        /\ inst[t].present
        /\ msgs[m].inst = t
        /\ msgs[m].status \in {"PROCESSING", "SENT", "FAILED"}

\* C36: a step of a scheduler cycle creates and deletes no message and no
\* installation, changes no field of a message but its status, and changes
\* the status only of messages of the cycle's batch; the batch is made of
\* messages that were PENDING and due at the claim read and gains none later
C36_CycleWritesStatusOnly ==
    [][\A c \in Cycles :
          /\ SchedulerStep(c) =>
                /\ nextId' = nextId
                /\ inst' = inst
                /\ \A m \in MsgIds :
                      /\ Stored(m)' = Stored(m)
                      /\ msgs'[m].inst = msgs[m].inst
                      /\ msgs'[m].sendAt = msgs[m].sendAt
                      /\ msgs'[m].asUser = msgs[m].asUser
                      /\ msgs'[m] # msgs[m] => m \in BatchIds(cyc[c].batch)
          /\ (cyc[c].pc = "read" /\ cyc'[c].pc = "mark") =>
                \A m \in BatchIds(cyc'[c].batch) :
                    msgs[m].status = "PENDING" /\ msgs[m].sendAt <= now
          /\ (cyc[c].pc \notin {"idle", "rejected", "read"}) =>
                BatchIds(cyc'[c].batch) \subseteq BatchIds(cyc[c].batch)]_vars

\* C36 happens: a cycle has written SENT for a message while a message that
\* is not due is stored PENDING
C36_Witness ==
    \E m, n \in MsgIds :
        /\ msgs[m].status = "SENT"
        /\ posts[m] > 0
        /\ msgs[n].status = "PENDING"
        /\ msgs[n].sendAt > now

\* C37: a call of getValidAccessToken that ends with a token other than the
\* one it read ends so at the return of the update, with the token, the
\* refresh token and the expiresAt of the grant response in the stored row;
\* and when the update after a grant does not go through, the call ends
\* with the token it read and the stored rows are as they were
C37_NewTokenOnlyOncePersisted ==
    [][\A k \in Calls :
          /\ (/\ call'[k].pc = "done"
              /\ call[k].pc # "done"
              /\ call'[k].fn = "getValidAccessToken"
              /\ call'[k].result # call'[k].snap.bot.token) =>
                  /\ call[k].pc = "update"
                  /\ call'[k].result = call[k].new.token
                  /\ cred'[call[k].src].bot = call[k].new
          /\ (/\ call[k].pc = "update"
              /\ call'[k].pc = "done"
              /\ cred'[call[k].src].bot # call[k].new) =>
                  /\ call'[k].result = call[k].cur
                  /\ call'[k].result = call[k].snap.bot.token
                  /\ cred' = cred]_svcVars

\* C37 happens: a call has ended with the token it read after a grant that
\* returned a new one, and the row it read is stored with the old token
C37_Witness ==
    \E k \in Calls :
        /\ call[k].fn = "getValidAccessToken"
        /\ call[k].pc = "done"
        /\ call[k].new # NoSub
        /\ call[k].result = call[k].cur
        /\ cred[call[k].src].id = call[k].snap.id
        /\ cred[call[k].src].bot.token = call[k].cur

====
